---- MODULE Spec2Model ----
(***************************************************************************)
(* Timeline event layout of react-native-calendars:                        *)
(*   - Packer.ts: populateEvents / packOverlappingEventGroup / buildEvent, *)
(*     buildUnavailableHoursBlocks;                                        *)
(*   - utils.ts: createEventSegments;                                      *)
(*   - Timeline.tsx: day grouping, all-day lane, press routing.            *)
(* Instants are integers (milliseconds, local time).  Pixel values are     *)
(* exact rationals [num, den]: the code computes them in floating point,   *)
(* the model in real arithmetic.  Sequences are 1-based, so the code's     *)
(* column index i is position i + 1 of `columns`.                          *)
(***************************************************************************)
EXTENDS Integers, Sequences, FiniteSets, TLC

VARIABLES
    lists,             \* the caller's event lists: [X |-> ..., Y |-> ...]
    arg,               \* which list the current call's _events refers to
    callNo,            \* number of populateEvents calls started
    results,           \* what the calls returned, in call order
    populateOptions,   \* the populateOptions argument
    pc,                \* position inside populateEvents
    events,            \* the sorted copy of _events
    pos,               \* forEach position in events
    lastEnd,           \* lastEnd (Null or an instant)
    columns,           \* columns of the open group
    calculatedEvents,  \* calculatedEvents
    groups,            \* the column sets handed to packOverlappingEventGroup
    segEvents,         \* createEventSegments: the events argument
    pageDates,         \* createEventSegments: the pageDates argument
    segPc,             \* position inside createEventSegments
    segPos,            \* forEach position in segEvents
    segments,          \* segments
    unavailableHours,  \* buildUnavailableHoursBlocks: the ranges argument
    uhOptions,         \* buildUnavailableHoursBlocks: the options argument
    uhPc,              \* position inside buildUnavailableHoursBlocks
    uhPos,             \* map position in unavailableHours
    uhMapped,          \* the array built by map: <<>> for undefined, <<block>> for a block
    uhBlocks,          \* the array returned
    props,             \* Timeline: events, date, eventTapped / onEventPress given or not
    tlPc,              \* Timeline: "init", "rendered" or "pressed"
    pageEvents,        \* pageEvents: the segments of each page date
    allDayByDay,       \* allDayByDay
    timedByDay,        \* timedByDay: the lists given to populateEvents
    packedEvents,      \* packedEvents
    lane,              \* AllDayEvents: per day the chips shown and the '+N' count
    pressed,           \* the block that was pressed, <<>> before a press
    calls,             \* the handler calls made, each [handler, event]
    scrollProps,       \* Timeline: the scroll props of each render, the last is current
    now,               \* the clock read by calcTimeOffset: [hour, minutes]
    scPc,              \* which effects are pending: "mount", "initial", "rerendered" or none
    depOffset,         \* the scrollOffset the hook's effect last ran with
    timers,            \* pending setTimeout callbacks: their initialPosition
    scrollLog          \* the scrollTo calls made, each [by, y, animated]

packVars == <<lists, arg, callNo, results, populateOptions, pc, events, pos,
              lastEnd, columns, calculatedEvents, groups>>

segVars == <<segEvents, pageDates, segPc, segPos, segments>>

uhVars == <<unavailableHours, uhOptions, uhPc, uhPos, uhMapped, uhBlocks>>

scrollVars == <<scrollProps, now, scPc, depOffset, timers, scrollLog>>

tlVars == <<props, tlPc, pageEvents, allDayByDay, timedByDay, packedEvents, lane,
            pressed, calls, scrollVars>>

vars == <<packVars, segVars, uhVars, tlVars>>

----------------------------------------------------------------------------
(* Bounds *)
MaxLen == 4          \* longest event list given to populateEvents
MaxTime == 2         \* instants are 0..MaxTime half hours after midnight
CallsMaxLen == 2     \* longest list in the repeated-call specification
CallsMaxTime == 1    \* latest half hour in the repeated-call specification
SegMaxLen == 2       \* longest event list given to createEventSegments
SegMaxDay == 2       \* calendar dates are 0..SegMaxDay
SegMaxPages == 2     \* longest pageDates list
UhMaxLen == 3        \* longest unavailableHours list
TlMaxLen == 5        \* longest events list given to Timeline
TlMaxDay == 1        \* Timeline page dates are 0..TlMaxDay
ScMaxLen == 2        \* longest events list of a Timeline that scrolls
MaxRenders == 3      \* renders of one Timeline, the first included

(* Program constants *)
HOUR_BLOCK_HEIGHT == 100
RIGHT_EDGE_SPACING == 10
Hour == 3600000      \* milliseconds per hour (60 * 60 * 1000)
HalfHour == 1800000
ZContained == 10     \* zIndex += 10
ZShort == 5          \* zIndex += 5
ScreenWidth == 360   \* constants.screenWidth
MaxRows == 3         \* rows of the all-day lane

Null == -1           \* null
Undefined == -2      \* an option or a field that is not given

----------------------------------------------------------------------------
(* Exact rationals *)
Abs(n) == IF n < 0 THEN -n ELSE n

RECURSIVE GCD(_, _)
GCD(a, b) == IF b = 0 THEN a ELSE GCD(b, a % b)

Rat(n, d) ==
    LET s == IF d < 0 THEN -1 ELSE 1
        g == GCD(Abs(n), Abs(d))
    IN  [num |-> (s * n) \div g, den |-> (s * d) \div g]

RatInt(n) == [num |-> n, den |-> 1]

RatMul(a, b) ==
    LET g1 == GCD(Abs(a.num), b.den)
        g2 == GCD(Abs(b.num), a.den)
    IN  IF a.num = 0 \/ b.num = 0 THEN RatInt(0)
        ELSE [num |-> (a.num \div g1) * (b.num \div g2),
              den |-> (a.den \div g2) * (b.den \div g1)]

RatSub(a, b) == Rat(a.num * b.den - b.num * a.den, a.den * b.den)

RatLess(a, b) == a.num * b.den < b.num * a.den

----------------------------------------------------------------------------
(* Packer.ts *)

\* the containment test with its arguments swapped
isEventContainedSwapped(eventA, eventB) ==
    eventB.start >= eventA.start /\ eventB.end <= eventA.end

isEventContained(eventA, eventB) ==
    eventA.start >= eventB.start /\ eventA.end <= eventB.end

getEventDuration(event) == event.end - event.start

hasCollision(a, b) == a.end > b.start /\ a.start < b.end

\* XDate.clearTime: midnight of the instant's day
DayLen == 24 * Hour
clearTime(t) == t - (t % DayLen)

OptDayStart(opts) == IF opts.dayStart = Undefined THEN 0 ELSE opts.dayStart
OptHourBlockHeight(opts) ==
    IF opts.hourBlockHeight = Undefined THEN HOUR_BLOCK_HEIGHT ELSE opts.hourBlockHeight

buildEvent(event, left, width, opts, zIndex) ==
    LET startTime == event.start
        endTime == IF event.end # Undefined THEN event.end ELSE startTime + Hour
        dayStartTime == clearTime(startTime)
        hbh == RatInt(OptHourBlockHeight(opts))
    IN  [top |-> RatMul(RatSub(Rat(startTime - dayStartTime, Hour),
                               RatInt(OptDayStart(opts))), hbh),
         height |-> RatMul(Rat(endTime - startTime, Hour), hbh),
         width |-> width,
         left |-> left,
         zIndex |-> zIndex] @@ event

RECURSIVE calcColumnSpanFrom(_, _, _, _)
calcColumnSpanFrom(event, i, cols, colSpan) ==
    IF i > Len(cols) THEN colSpan
    ELSE IF \E k \in 1..Len(cols[i]) : hasCollision(event, cols[i][k]) THEN colSpan
    ELSE calcColumnSpanFrom(event, i + 1, cols, colSpan + 1)

\* every column to the right counted, colliding or not
calcColumnSpanNoStop(event, columnIndex, cols) == Len(cols) - columnIndex

\* colSpan starts at 2
calcColumnSpanPlusOne(event, columnIndex, cols) ==
    calcColumnSpanFrom(event, columnIndex + 2, cols, 2)

\* columnIndex is the code's 0-based index: column columnIndex + 1 is position columnIndex + 2
calcColumnSpan(event, columnIndex, cols) ==
    calcColumnSpanFrom(event, columnIndex + 2, cols, 1)

RECURSIVE Flatten(_)
Flatten(seqs) == IF seqs = <<>> THEN <<>> ELSE Head(seqs) \o Flatten(Tail(seqs))

OptTotalWidth(opts) ==
    opts.screenWidth -
    (IF opts.rightEdgeSpacing = Undefined THEN RIGHT_EDGE_SPACING ELSE opts.rightEdgeSpacing)

\* first pass of packOverlappingEventGroup
EventsInGroup(cols, opts) ==
    LET N == Len(cols)
        totalWidth == OptTotalWidth(opts)
        info(c, k) ==
            LET event == cols[c][k]
                columnSpan == calcColumnSpan(event, c - 1, cols)
            IN  [event |-> event,
                 left |-> RatMul(Rat(c - 1, N), RatInt(totalWidth)),
                 width |-> RatMul(RatInt(totalWidth), Rat(columnSpan, N)),
                 duration |-> getEventDuration(event),
                 columnIndex |-> c - 1]
    IN  Flatten([c \in 1..N |-> [k \in 1..Len(cols[c]) |-> info(c, k)]])

\* second pass of packOverlappingEventGroup
GroupZIndex(eventsInGroup, index) ==
    LET eventInfo == eventsInGroup[index]
        containers == {otherIndex \in 1..Len(eventsInGroup) :
                          /\ index # otherIndex
                          /\ isEventContained(eventInfo.event, eventsInGroup[otherIndex].event)
                          /\ eventInfo.duration <= eventsInGroup[otherIndex].duration}
    IN  ZContained * Cardinality(containers)
        + (IF eventInfo.duration < Hour THEN ZShort ELSE 0)

packOverlappingEventGroup(cols, calculated, opts) ==
    LET eventsInGroup == EventsInGroup(cols, opts)
    IN  calculated \o
        [index \in 1..Len(eventsInGroup) |->
            buildEvent(eventsInGroup[index].event, eventsInGroup[index].left,
                       eventsInGroup[index].width, opts,
                       GroupZIndex(eventsInGroup, index))]

\* the comparator given to sort
CompareEvents(a, b) ==
    IF a.start < b.start THEN -1
    ELSE IF a.start > b.start THEN 1
    ELSE IF getEventDuration(a) < getEventDuration(b) THEN -1
    ELSE IF getEventDuration(a) > getEventDuration(b) THEN 1
    ELSE IF a.end < b.end THEN -1
    ELSE IF a.end > b.end THEN 1
    ELSE 0

\* Array.prototype.sort is stable: an element goes after its equals
RECURSIVE InsertSorted(_, _)
InsertSorted(sorted, ev) ==
    IF sorted = <<>> THEN <<ev>>
    ELSE IF CompareEvents(ev, Head(sorted)) < 0 THEN <<ev>> \o sorted
    ELSE <<Head(sorted)>> \o InsertSorted(Tail(sorted), ev)

RECURSIVE SortFrom(_, _, _)
SortFrom(evs, k, sorted) ==
    IF k > Len(evs) THEN sorted
    ELSE SortFrom(evs, k + 1, InsertSorted(sorted, evs[k]))

\* the copy without the sort
UnsortedEvents(evs) == [k \in 1..Len(evs) |-> [index |-> k - 1] @@ evs[k]]

\* _events.map((ev, index) => ({...ev, index})).sort(...)
SortedEvents(evs) ==
    SortFrom([k \in 1..Len(evs) |-> [index |-> k - 1] @@ evs[k]], 1, <<>>)

\* the placement loop of the forEach body; 0 when no column takes the event
RECURSIVE FirstFreeColumn(_, _, _)
FirstFreeColumn(cols, ev, i) ==
    IF i > Len(cols) THEN 0
    ELSE IF ~hasCollision(cols[i][Len(cols[i])], ev) THEN i
    ELSE FirstFreeColumn(cols, ev, i + 1)

PlaceEvent(cols, ev) ==
    LET i == FirstFreeColumn(cols, ev, 1)
    IN  IF i = 0 THEN Append(cols, <<ev>>)
        ELSE [cols EXCEPT ![i] = Append(@, ev)]

\* a touching event stays in the open group
StartsNewGroupStrict(st, ev) == st.lastEnd # Null /\ ev.start > st.lastEnd

\* lastEnd !== null && ev.start >= lastEnd
StartsNewGroup(st, ev) == st.lastEnd # Null /\ ev.start >= st.lastEnd

\* one iteration of events.forEach on the state st
ForEachBody(st, ev, opts) ==
    LET flush == StartsNewGroup(st, ev)
        cols1 == IF flush THEN <<>> ELSE st.columns
        lastEnd1 == IF flush THEN Null ELSE st.lastEnd
    IN  [calculatedEvents |->
             IF flush THEN packOverlappingEventGroup(st.columns, st.calculatedEvents, opts)
             ELSE st.calculatedEvents,
         columns |-> PlaceEvent(cols1, ev),
         lastEnd |-> IF lastEnd1 = Null \/ ev.end > lastEnd1 THEN ev.end ELSE lastEnd1,
         groups |-> IF flush THEN Append(st.groups, st.columns) ELSE st.groups]

\* the last group is not packed
FinalGroupSkipped(st, opts) == st

\* the code after the forEach
FinalGroup(st, opts) ==
    IF Len(st.columns) > 0
    THEN [st EXCEPT !.calculatedEvents =
                        packOverlappingEventGroup(st.columns, st.calculatedEvents, opts),
                    !.groups = Append(st.groups, st.columns)]
    ELSE st

\* locals that survive from the previous call
StaleEntryState ==
    [lastEnd |-> lastEnd, columns |-> columns, calculatedEvents |-> <<>>, groups |-> <<>>]

\* let lastEnd = null; let columns = []; const calculatedEvents = []
EntryState ==
    [lastEnd |-> Null, columns |-> <<>>, calculatedEvents |-> <<>>, groups |-> <<>>]

RECURSIVE PopulateFrom(_, _, _, _)
PopulateFrom(evs, k, st, opts) ==
    IF k > Len(evs) THEN FinalGroup(st, opts)
    ELSE PopulateFrom(evs, k + 1, ForEachBody(st, evs[k], opts), opts)

populateEvents(evs, opts) ==
    PopulateFrom(SortedEvents(evs), 1, EntryState, opts).calculatedEvents

----------------------------------------------------------------------------
(* Inputs of the packer specifications *)
RECURSIVE SeqsUpTo(_, _)
SeqsUpTo(S, n) ==
    IF n = 0 THEN {<<>>}
    ELSE LET shorter == SeqsUpTo(S, n - 1)
         IN  shorter \cup {Append(s, x) : s \in {t \in shorter : Len(t) = n - 1}, x \in S}

\* events of one day with start <= end (the data model's invariant)
DayEvents(maxTime) ==
    {ev \in [start : {a * HalfHour : a \in 0..maxTime},
             end : {b * HalfHour : b \in 0..maxTime}] : ev.start <= ev.end}

PopulateOptionsSet ==
    {[screenWidth |-> 360, rightEdgeSpacing |-> Undefined,
      dayStart |-> Undefined, hourBlockHeight |-> Undefined],
     [screenWidth |-> 360, rightEdgeSpacing |-> 0,
      dayStart |-> 1, hourBlockHeight |-> 60],
     [screenWidth |-> 7, rightEdgeSpacing |-> 0,
      dayStart |-> Undefined, hourBlockHeight |-> Undefined],
     [screenWidth |-> 10, rightEdgeSpacing |-> Undefined,
      dayStart |-> 1, hourBlockHeight |-> Undefined]}

CallsOptionsSet ==
    {o \in PopulateOptionsSet : o.screenWidth = 360}

----------------------------------------------------------------------------
(* populateEvents as a sequence of steps *)

\* no scroll prop is given and no effect is pending
InitScrollIdle ==
    /\ scrollProps = <<>>
    /\ now = [hour |-> 0, minutes |-> 0]
    /\ scPc = "idle"
    /\ depOffset = Undefined
    /\ timers = <<>>
    /\ scrollLog = <<>>

\* no Timeline is mounted
InitTlIdle ==
    /\ InitScrollIdle
    /\ props = [events |-> <<>>, date |-> <<>>, eventTapped |-> FALSE, onEventPress |-> FALSE]
    /\ tlPc = "idle"
    /\ pageEvents = <<>>
    /\ allDayByDay = <<>>
    /\ timedByDay = <<>>
    /\ packedEvents = <<>>
    /\ lane = <<>>
    /\ pressed = <<>>
    /\ calls = <<>>

\* buildUnavailableHoursBlocks is not running
InitUhIdle ==
    /\ unavailableHours = <<>>
    /\ uhOptions = [hourBlockHeight |-> Undefined, dayStart |-> Undefined, dayEnd |-> Undefined]
    /\ uhPc = "idle"
    /\ uhPos = 1
    /\ uhMapped = <<>>
    /\ uhBlocks = <<>>

\* createEventSegments is not running
InitSegIdle ==
    /\ segEvents = <<>>
    /\ pageDates = <<>>
    /\ segPc = "idle"
    /\ segPos = 1
    /\ segments = <<>>

InitPackCommon ==
    /\ arg = "X"
    /\ callNo = 0
    /\ results = <<>>
    /\ pc = "idle"
    /\ events = <<>>
    /\ pos = 1
    /\ lastEnd = Null
    /\ columns = <<>>
    /\ calculatedEvents = <<>>
    /\ groups = <<>>

InitPack ==
    /\ lists \in [X : SeqsUpTo(DayEvents(MaxTime), MaxLen), Y : {<<>>}]
    /\ populateOptions \in PopulateOptionsSet
    /\ InitPackCommon
    /\ InitSegIdle
    /\ InitUhIdle
    /\ InitTlIdle

InitCalls ==
    /\ lists \in [X : SeqsUpTo(DayEvents(CallsMaxTime), CallsMaxLen),
                  Y : SeqsUpTo(DayEvents(CallsMaxTime), CallsMaxLen)]
    /\ populateOptions \in CallsOptionsSet
    /\ InitPackCommon
    /\ InitSegIdle
    /\ InitUhIdle
    /\ InitTlIdle

\* entry of populateEvents: the locals, the copy and its sort
Enter(list) ==
    /\ arg' = list
    /\ callNo' = callNo + 1
    /\ events' = SortedEvents(lists[list])
    /\ pos' = 1
    /\ lastEnd' = EntryState.lastEnd
    /\ columns' = EntryState.columns
    /\ calculatedEvents' = EntryState.calculatedEvents
    /\ groups' = EntryState.groups
    /\ pc' = "loop"
    /\ UNCHANGED <<lists, results, populateOptions, segVars, uhVars, tlVars>>

CallFirst ==
    /\ pc = "idle"
    /\ Enter("X")

\* the caller calls again: Y after X, then X once more
CallAgain ==
    /\ pc = "done"
    /\ callNo \in 1..2
    /\ Enter(IF callNo = 1 THEN "Y" ELSE "X")

CurrentState ==
    [lastEnd |-> lastEnd, columns |-> columns,
     calculatedEvents |-> calculatedEvents, groups |-> groups]

ForEachStep ==
    /\ pc = "loop"
    /\ pos <= Len(events)
    /\ LET st == ForEachBody(CurrentState, events[pos], populateOptions)
       IN  /\ lastEnd' = st.lastEnd
           /\ columns' = st.columns
           /\ calculatedEvents' = st.calculatedEvents
           /\ groups' = st.groups
    /\ pos' = pos + 1
    /\ UNCHANGED <<lists, arg, callNo, results, populateOptions, pc, events, segVars, uhVars, tlVars>>

Return ==
    /\ pc = "loop"
    /\ pos > Len(events)
    /\ LET st == FinalGroup(CurrentState, populateOptions)
       IN  /\ calculatedEvents' = st.calculatedEvents
           /\ groups' = st.groups
           /\ results' = Append(results, st.calculatedEvents)
    /\ pc' = "done"
    /\ UNCHANGED <<lists, arg, callNo, populateOptions, events, pos, lastEnd, columns, segVars, uhVars, tlVars>>

NextPack == CallFirst \/ ForEachStep \/ Return
SpecPack == InitPack /\ [][NextPack]_vars

NextCalls == CallFirst \/ CallAgain \/ ForEachStep \/ Return
SpecCalls == InitCalls /\ [][NextCalls]_vars

----------------------------------------------------------------------------
(* utils.ts: createEventSegments *)

\* services.getCalendarDateString: the local calendar date of an instant;
\* the date string is represented by the day number
getCalendarDateString(date) == date \div DayLen

\* date.setHours(0, 0, 0, 0)
StartOfDay(date) == clearTime(date)

\* date.setHours(23, 59, 59, 999)
EndOfDay(date) == clearTime(date) + (DayLen - 1)

\* currentDate.setDate(currentDate.getDate() + 1), on a date at 00:00
NextDate(currentDate) == currentDate + DayLen

\* only event.end is tested
IsMissingEndOnly(event) == event.end = Undefined

\* !event.start || !event.end
IsMissing(event) == event.start = Undefined \/ event.end = Undefined

\* pageDates.includes(dateString)
Includes(dates, dateString) == \E k \in 1..Len(dates) : dates[k] = dateString

\* the single-day branch
SingleDaySegments(event, dates) ==
    LET startDateString == getCalendarDateString(event.start)
    IN  IF Includes(dates, startDateString)
        THEN <<[segmentDate |-> startDateString, isEventSegment |-> FALSE] @@ event>>
        ELSE <<>>

\* the body of the while loop for one currentDate: the segment pushed, if any
DaySegment(event, currentDate, dayCount, dates) ==
    LET dateString == getCalendarDateString(currentDate)
        endDateString == getCalendarDateString(event.end)
        segmentStart == IF dayCount = 0 THEN event.start ELSE StartOfDay(currentDate)
        segmentEnd == IF dayCount = 0 THEN EndOfDay(currentDate)
                      ELSE IF dateString = endDateString THEN event.end
                      ELSE EndOfDay(currentDate)
        dayType == IF dayCount = 0 THEN "start"
                   ELSE IF dateString = endDateString THEN "end" ELSE "middle"
    IN  IF Includes(dates, dateString)
        THEN <<[start |-> segmentStart, end |-> segmentEnd, originalEvent |-> event,
                segmentDate |-> dateString, isEventSegment |-> TRUE,
                dayType |-> dayType] @@ event>>
        ELSE <<>>

\* dayCount counts the segments pushed, not the days visited
NextDayCountPushed(dayCount, pushed) == dayCount + Len(pushed)

\* dayCount++
NextDayCount(dayCount, pushed) == dayCount + 1

\* the loop stops before the end date
LoopContinuesStrict(currentDate, endDateOnly) == currentDate < endDateOnly

\* while (currentDate <= endDateOnly)
LoopContinues(currentDate, endDateOnly) == currentDate <= endDateOnly

RECURSIVE MultiDayFrom(_, _, _, _, _)
MultiDayFrom(event, currentDate, endDateOnly, dayCount, dates) ==
    IF ~LoopContinues(currentDate, endDateOnly) THEN <<>>
    ELSE LET pushed == DaySegment(event, currentDate, dayCount, dates)
         IN  pushed \o MultiDayFrom(event, NextDate(currentDate), endDateOnly,
                                    NextDayCount(dayCount, pushed), dates)

\* the multi-day branch
MultiDaySegments(event, dates) ==
    MultiDayFrom(event, StartOfDay(event.start), StartOfDay(event.end), 0, dates)

\* the forEach callback: the segments pushed for one event
SegmentsOfEvent(event, dates) ==
    IF IsMissing(event) THEN <<>>
    ELSE IF getCalendarDateString(event.start) = getCalendarDateString(event.end)
    THEN SingleDaySegments(event, dates)
    ELSE MultiDaySegments(event, dates)

RECURSIVE SegmentsFrom(_, _, _)
SegmentsFrom(evs, k, dates) ==
    IF k > Len(evs) THEN <<>>
    ELSE SegmentsOfEvent(evs[k], dates) \o SegmentsFrom(evs, k + 1, dates)

createEventSegments(evs, dates) == SegmentsFrom(evs, 1, dates)

\* events start at 10:00 of a date and end at 00:00 or 10:00 of a date; either
\* may be missing
SegEventData(maxDay) ==
    [start : {d * DayLen + 10 * Hour : d \in 0..maxDay} \cup {Undefined},
     end : {d * DayLen + t : d \in 0..maxDay, t \in {0, 10 * Hour}} \cup {Undefined}]

\* every event carries its position as id and is not all-day
WithIds(data) ==
    [k \in 1..Len(data) |-> [id |-> k, allDay |-> FALSE] @@ data[k]]

InitPackIdle ==
    /\ lists = [X |-> <<>>, Y |-> <<>>]
    /\ populateOptions = [screenWidth |-> 360, rightEdgeSpacing |-> Undefined,
                          dayStart |-> Undefined, hourBlockHeight |-> Undefined]
    /\ InitPackCommon

InitSeg ==
    /\ segEvents \in {WithIds(data) : data \in SeqsUpTo(SegEventData(SegMaxDay), SegMaxLen)}
    /\ pageDates \in SeqsUpTo(0..SegMaxDay, SegMaxPages)
    /\ segPc = "idle"
    /\ segPos = 1
    /\ segments = <<>>
    /\ InitPackIdle
    /\ InitUhIdle
    /\ InitTlIdle

\* const segments = []
SegEnter ==
    /\ segPc = "idle"
    /\ segPc' = "loop"
    /\ segPos' = 1
    /\ segments' = <<>>
    /\ UNCHANGED <<segEvents, pageDates, packVars, uhVars, tlVars>>

\* one call of the forEach callback
SegForEachStep ==
    /\ segPc = "loop"
    /\ segPos <= Len(segEvents)
    /\ segments' = segments \o SegmentsOfEvent(segEvents[segPos], pageDates)
    /\ segPos' = segPos + 1
    /\ UNCHANGED <<segEvents, pageDates, segPc, packVars, uhVars, tlVars>>

\* return segments
SegReturn ==
    /\ segPc = "loop"
    /\ segPos > Len(segEvents)
    /\ segPc' = "done"
    /\ UNCHANGED <<segEvents, pageDates, segPos, segments, packVars, uhVars, tlVars>>

NextSeg == SegEnter \/ SegForEachStep \/ SegReturn
SpecSeg == InitSeg /\ [][NextSeg]_vars

----------------------------------------------------------------------------
(* Packer.ts: buildUnavailableHoursBlocks *)

Min(a, b) == IF a < b THEN a ELSE b
Max(a, b) == IF a > b THEN a ELSE b

\* the upper bound taken as inclusive
InRangeInclusive(number, start, end) ==
    number >= Min(start, end) /\ number <= Max(start, end)

\* lodash inRange(number, start, end)
InRange(number, start, end) ==
    number >= Min(start, end) /\ number < Max(start, end)

\* the result of a division by zero followed by a multiplication by zero
NaN == [num |-> 0, den |-> 0]

UhHourBlockHeight(options) ==
    IF options.hourBlockHeight = Undefined THEN HOUR_BLOCK_HEIGHT ELSE options.hourBlockHeight
UhDayStart(options) == IF options.dayStart = Undefined THEN 0 ELSE options.dayStart
UhDayEnd(options) == IF options.dayEnd = Undefined THEN 24 ELSE options.dayEnd

\* the map callback: <<>> for undefined, <<block>> otherwise
UnavailableBlock(hours, options) ==
    LET hourBlockHeight == UhHourBlockHeight(options)
        dayStart == UhDayStart(options)
        dayEnd == UhDayEnd(options)
        totalDayHours == dayEnd - dayStart
        totalDayHeight == (dayEnd - dayStart) * hourBlockHeight
        startFixed == Max(hours.start, dayStart)
        endFixed == Min(hours.end, dayEnd)
    IN  IF ~InRange(hours.start, 0, 25) \/ ~InRange(hours.end, 0, 25) THEN <<>>
        ELSE IF hours.start >= hours.end THEN <<>>
        ELSE <<[top |-> IF totalDayHours = 0 THEN NaN
                        ELSE RatMul(Rat(startFixed - dayStart, totalDayHours),
                                    RatInt(totalDayHeight)),
                height |-> RatInt((endFixed - startFixed) * hourBlockHeight)]>>

\* the ranges the lists are built from
UhRanges ==
    {[start |-> 1, end |-> 5], [start |-> 23, end |-> 26], [start |-> -1, end |-> 5],
     [start |-> 5, end |-> 1], [start |-> 5, end |-> 5], [start |-> 0, end |-> 24],
     [start |-> 24, end |-> 25], [start |-> 0, end |-> 5], [start |-> 23, end |-> 24]}

\* no options (all defaults), a shorter day, another block height, an empty day
UhOptionsSet ==
    {[hourBlockHeight |-> Undefined, dayStart |-> Undefined, dayEnd |-> Undefined],
     [hourBlockHeight |-> Undefined, dayStart |-> 8, dayEnd |-> 18],
     [hourBlockHeight |-> 60, dayStart |-> 0, dayEnd |-> 24],
     [hourBlockHeight |-> Undefined, dayStart |-> 9, dayEnd |-> 9]}

InitUh ==
    /\ unavailableHours \in SeqsUpTo(UhRanges, UhMaxLen)
    /\ uhOptions \in UhOptionsSet
    /\ uhPc = "idle"
    /\ uhPos = 1
    /\ uhMapped = <<>>
    /\ uhBlocks = <<>>
    /\ InitPackIdle
    /\ InitSegIdle
    /\ InitTlIdle

UhEnter ==
    /\ uhPc = "idle"
    /\ uhPc' = "map"
    /\ uhPos' = 1
    /\ uhMapped' = <<>>
    /\ UNCHANGED <<unavailableHours, uhOptions, uhBlocks, packVars, segVars, tlVars>>

\* one call of the map callback
UhMapStep ==
    /\ uhPc = "map"
    /\ uhPos <= Len(unavailableHours)
    /\ uhMapped' = Append(uhMapped, UnavailableBlock(unavailableHours[uhPos], uhOptions))
    /\ uhPos' = uhPos + 1
    /\ UNCHANGED <<unavailableHours, uhOptions, uhPc, uhBlocks, packVars, segVars, tlVars>>

\* .filter(Boolean) and return
UhFilterReturn ==
    /\ uhPc = "map"
    /\ uhPos > Len(unavailableHours)
    /\ uhBlocks' = Flatten(uhMapped)
    /\ uhPc' = "done"
    /\ UNCHANGED <<unavailableHours, uhOptions, uhPos, uhMapped, packVars, segVars, tlVars>>

NextUh == UhEnter \/ UhMapStep \/ UhFilterReturn
SpecUh == InitUh /\ [][NextUh]_vars

----------------------------------------------------------------------------
(* Properties of the segmenter *)

\* the event with id k has been handled by the forEach
Processed(k) == segPc \in {"loop", "done"} /\ k < segPos

SegmentsOfId(k) == {j \in 1..Len(segments) : segments[j].id = k}

IsMultiDay(event) ==
    /\ event.start # Undefined
    /\ event.end # Undefined
    /\ event.start \div DayLen # event.end \div DayLen

IsSingleDay(event) ==
    /\ event.start # Undefined
    /\ event.end # Undefined
    /\ event.start \div DayLen = event.end \div DayLen

\* the calendar dates D0..Dn an event spans
SpannedDates(event) == (event.start \div DayLen)..(event.end \div DayLen)

PageDateSet == {pageDates[k] : k \in 1..Len(pageDates)}

\* C4: a processed multi-day event has exactly one segment per date of
\* D0..Dn that is in pageDates, and no other segment.
C4_SegmentCoverage ==
    \A k \in 1..Len(segEvents) :
        (Processed(k) /\ IsMultiDay(segEvents[k])) =>
            LET wanted == SpannedDates(segEvents[k]) \cap PageDateSet
            IN  /\ {segments[j].segmentDate : j \in SegmentsOfId(k)} = wanted
                /\ Cardinality(SegmentsOfId(k)) = Cardinality(wanted)

\* an event spanning three dates was segmented for a pageDates list that
\* repeats its last date and lacks its first
C4_Witness ==
    /\ segPc = "done"
    /\ \E k \in 1..Len(segEvents) :
          /\ IsMultiDay(segEvents[k])
          /\ Cardinality(SpannedDates(segEvents[k])) >= 3
          /\ Len(pageDates) = 2
          /\ pageDates[1] = pageDates[2]
          /\ pageDates[1] = segEvents[k].end \div DayLen
          /\ Cardinality(SegmentsOfId(k)) = 1

\* C5: the segment of D0 is 'start' (original start to 23:59:59.999), the
\* segment of Dn is 'end' (00:00 to original end), a segment of a date
\* between is 'middle' (00:00 to 23:59:59.999), whatever pageDates holds.
C5_SegmentBoundaries ==
    \A k \in 1..Len(segEvents) :
        (Processed(k) /\ IsMultiDay(segEvents[k])) =>
            \A j \in SegmentsOfId(k) :
                LET seg == segments[j]
                    ev == segEvents[k]
                    d == seg.segmentDate
                    D0 == ev.start \div DayLen
                    Dn == ev.end \div DayLen
                IN  /\ d = D0 =>
                          /\ seg.dayType = "start"
                          /\ seg.start = ev.start
                          /\ seg.end = d * DayLen + DayLen - 1
                    /\ d = Dn =>
                          /\ seg.dayType = "end"
                          /\ seg.start = d * DayLen
                          /\ seg.end = ev.end
                    /\ (D0 < d /\ d < Dn) =>
                          /\ seg.dayType = "middle"
                          /\ seg.start = d * DayLen
                          /\ seg.end = d * DayLen + DayLen - 1

\* an event spanning three dates whose first date is not a page date got a
\* 'middle' and an 'end' segment
C5_Witness ==
    /\ segPc = "done"
    /\ \E k \in 1..Len(segEvents) :
          /\ IsMultiDay(segEvents[k])
          /\ (segEvents[k].start \div DayLen) \notin PageDateSet
          /\ \E j \in SegmentsOfId(k) : segments[j].dayType = "middle"
          /\ \E j \in SegmentsOfId(k) : segments[j].dayType = "end"

\* C6: a processed event without start or end has no segment; a processed
\* single-day event has one segment if its date is a page date and none
\* otherwise, and that segment is the event itself plus segmentDate and
\* isEventSegment = false.
C6_SkipAndSingleDay ==
    \A k \in 1..Len(segEvents) :
        LET ev == segEvents[k]
        IN  /\ (Processed(k) /\ (ev.start = Undefined \/ ev.end = Undefined)) =>
                   SegmentsOfId(k) = {}
            /\ (Processed(k) /\ IsSingleDay(ev)) =>
                   /\ Cardinality(SegmentsOfId(k)) =
                          (IF (ev.start \div DayLen) \in PageDateSet THEN 1 ELSE 0)
                   /\ \A j \in SegmentsOfId(k) :
                          /\ segments[j].start = ev.start
                          /\ segments[j].end = ev.end
                          /\ segments[j].isEventSegment = FALSE
                          /\ segments[j].segmentDate = ev.start \div DayLen
                          /\ DOMAIN segments[j] =
                                 DOMAIN ev \cup {"segmentDate", "isEventSegment"}
                          /\ \A f \in DOMAIN ev : segments[j][f] = ev[f]

\* an event without end was skipped and the single-day event after it was
\* emitted
C6_Witness ==
    /\ segPc = "done"
    /\ Len(segEvents) = 2
    /\ segEvents[1].start # Undefined
    /\ segEvents[1].end = Undefined
    /\ IsSingleDay(segEvents[2])
    /\ Len(segments) = 1
    /\ segments[1].id = 2

----------------------------------------------------------------------------
(* Timeline.tsx *)

\* e.allDay || e.originalEvent?.allDay
isAllDayEvent(e) ==
    e.allDay \/ ("originalEvent" \in DOMAIN e /\ e.originalEvent.allDay)

\* groupBy(eventSegments, e => e.segmentDate) and map(pageDates, d => groupedEvents[d] || [])
PageEventsOf(eventSegments, dates) ==
    [k \in 1..Len(dates) |->
        LET OfDate(seg) == seg.segmentDate = dates[k]
        IN  SelectSeq(eventSegments, OfDate)]

\* pageEvents.map(list => list.filter(isAllDayEvent))
AllDayOf(pages) == [k \in 1..Len(pages) |-> SelectSeq(pages[k], isAllDayEvent)]

\* the page lists without the filter
TimedOfUnfiltered(pages) == pages

\* pageEvents.map(list => list.filter(e => !isAllDayEvent(e)))
TimedOf(pages) ==
    [k \in 1..Len(pages) |->
        LET NotAllDay(e) == ~isAllDayEvent(e)
        IN  SelectSeq(pages[k], NotAllDay)]

\* the options Timeline gives to populateEvents, with the defaults of its props
TimelinePopulateOptions(numberOfDays) ==
    [screenWidth |-> ScreenWidth \div numberOfDays, dayStart |-> 0,
     rightEdgeSpacing |-> 0, hourBlockHeight |-> Undefined]

\* map(timedByDay, (_e, i) => populateEvents(timedByDay[i], {...}))
PackedOf(timed) ==
    [k \in 1..Len(timed) |-> populateEvents(timed[k], TimelinePopulateOptions(Len(timed)))]

\* Math.max(...)
MaxOf(S) == CHOOSE y \in S : \A z \in S : z <= y

Prefix(seq, n) == SubSeq(seq, 1, Min(n, Len(seq)))

\* AllDayEvents: the chips of each day and its '+N' count
LaneOf(eventsByDay) ==
    LET FlagSet(e) == e.allDay
        dayEventCounts == [k \in 1..Len(eventsByDay) |-> SelectSeq(eventsByDay[k], FlagSet)]
        maxDayEvents == MaxOf({1} \cup {Len(dayEventCounts[k]) : k \in 1..Len(eventsByDay)})
        extraEvents == IF maxDayEvents > MaxRows THEN maxDayEvents - MaxRows ELSE 0
        maxStack == Min(maxDayEvents, MaxRows) - (IF extraEvents > 0 THEN 1 ELSE 0)
    IN  [k \in 1..Len(eventsByDay) |->
            LET allDayEvents == SelectSeq(eventsByDay[k], FlagSet)
            IN  [visibleEvents |-> Prefix(allDayEvents, maxStack),
                 hiddenEventsCount |-> Max(0, Len(allDayEvents) - maxStack)]]

\* the event is passed on as it is
PassedAsIs(event) == event

\* event.originalEvent || event
OriginalOr(event) ==
    IF "originalEvent" \in DOMAIN event THEN event.originalEvent ELSE event

\* _onEventPress: the handler calls it makes
OnEventPressCalls(event) ==
    LET eventToPass == OriginalOr(event)
    IN  IF props.eventTapped THEN <<[handler |-> "eventTapped", event |-> eventToPass]>>
        ELSE IF props.onEventPress THEN <<[handler |-> "onEventPress", event |-> eventToPass]>>
        ELSE <<>>

\* events start at 10:00 of date 0 and end at 14:00 of a date, timed or all-day
TlEventData(maxDay) ==
    [start : {10 * Hour}, end : {d * DayLen + 14 * Hour : d \in 0..maxDay},
     allDay : BOOLEAN]

TlWithIds(data) == [k \in 1..Len(data) |-> [id |-> k] @@ data[k]]

\* the date prop: one date, or all the dates
TlDates(maxDay) ==
    {<<d>> : d \in 0..maxDay} \cup {[k \in 1..(maxDay + 1) |-> k - 1]}

InitTl ==
    /\ props \in [events : {TlWithIds(data) : data \in SeqsUpTo(TlEventData(TlMaxDay), TlMaxLen)},
                  date : TlDates(TlMaxDay),
                  eventTapped : BOOLEAN, onEventPress : BOOLEAN]
    /\ tlPc = "init"
    /\ pageEvents = <<>>
    /\ allDayByDay = <<>>
    /\ timedByDay = <<>>
    /\ packedEvents = <<>>
    /\ lane = <<>>
    /\ pressed = <<>>
    /\ calls = <<>>
    /\ InitScrollIdle
    /\ InitPackIdle
    /\ InitSegIdle
    /\ InitUhIdle

\* the first render: the useMemo chain and the AllDayEvents lane
Render ==
    /\ tlPc = "init"
    /\ LET eventSegments == IF Len(props.events) = 0 THEN <<>>
                            ELSE createEventSegments(props.events, props.date)
           pages == PageEventsOf(eventSegments, props.date)
       IN  /\ pageEvents' = pages
           /\ allDayByDay' = AllDayOf(pages)
           /\ timedByDay' = TimedOf(pages)
           /\ packedEvents' = PackedOf(TimedOf(pages))
           /\ lane' = LaneOf(AllDayOf(pages))
    /\ tlPc' = "rendered"
    /\ UNCHANGED <<props, pressed, calls, scrollVars, packVars, segVars, uhVars>>

\* a press on an EventBlock: onPress = () => _onEventPress(event)
PressTimed ==
    /\ tlPc = "rendered"
    /\ \E d \in 1..Len(packedEvents) : \E k \in 1..Len(packedEvents[d]) :
          /\ pressed' = <<packedEvents[d][k]>>
          /\ calls' = calls \o OnEventPressCalls(packedEvents[d][k])
    /\ tlPc' = "pressed"
    /\ UNCHANGED <<props, pageEvents, allDayByDay, timedByDay, packedEvents, lane,
                   scrollVars, packVars, segVars, uhVars>>

\* a press on an all-day chip: handlePress = () => onEventPress?.(evt.originalEvent || evt),
\* where onEventPress is Timeline's _onEventPress
PressAllDay ==
    /\ tlPc = "rendered"
    /\ \E d \in 1..Len(lane) : \E k \in 1..Len(lane[d].visibleEvents) :
          /\ pressed' = <<lane[d].visibleEvents[k]>>
          /\ calls' = calls \o OnEventPressCalls(OriginalOr(lane[d].visibleEvents[k]))
    /\ tlPc' = "pressed"
    /\ UNCHANGED <<props, pageEvents, allDayByDay, timedByDay, packedEvents, lane,
                   scrollVars, packVars, segVars, uhVars>>

NextTl == Render \/ PressTimed \/ PressAllDay
SpecTl == InitTl /\ [][NextTl]_vars

----------------------------------------------------------------------------
(* Timeline.tsx and useTimelineOffset.ts: the scroll effects *)

\* calcTimeOffset(hourBlockHeight, hour, minutes): (hour + minutes / 60) * hourBlockHeight,
\* hour and minutes being those of the clock when they are not given
calcTimeOffset(hourBlockHeight, hour, minutes) ==
    Rat((hour * 60 + minutes) * hourBlockHeight, 60)

\* if (initialPosition): a number is truthy unless it is 0 or NaN
Truthy(x) == x.num # 0

\* isNil(scrollOffset)
isNil(x) == x = Undefined \/ x = Null

\* min(map(packedEvents[0], 'top')) ?? 0
MinTop(packed) ==
    IF Len(packed) = 0 THEN RatInt(0)
    ELSE LET tops == {packed[k].top : k \in 1..Len(packed)}
         IN  CHOOSE t \in tops : \A u \in tops : ~RatLess(u, t)

\* initialPosition after the scrollToNow / scrollToFirst / initialTime chain
InitialPosition(p, clock, packed) ==
    IF p.scrollToNow
    THEN calcTimeOffset(HOUR_BLOCK_HEIGHT, clock.hour, clock.minutes)
    ELSE IF p.scrollToFirst /\ Len(packed[1]) > 0
    THEN MinTop(packed[1])
    ELSE IF p.initialTime # <<>>
    THEN calcTimeOffset(HOUR_BLOCK_HEIGHT, p.initialTime[1].hour, p.initialTime[1].minutes)
    ELSE RatInt(0)

\* Math.max(0, initialPosition - HOUR_BLOCK_HEIGHT)
ScrollTarget(initialPosition) ==
    LET y == RatSub(initialPosition, RatInt(HOUR_BLOCK_HEIGHT))
    IN  IF RatLess(y, RatInt(0)) THEN RatInt(0) ELSE y

\* the hook scrolls on any day
ShouldSyncAnyDay(p) == p.scrollOffset # Undefined

\* scrollOffset !== undefined && !isCurrentDay
ShouldSync(p) == p.scrollOffset # Undefined /\ ~p.isCurrentDay

\* useEffect(..., [scrollOffset]): the effect runs after the first render and after a
\* render whose scrollOffset is not the one it last ran with
DepsChanged(p) == scPc = "mount" \/ p.scrollOffset # depOffset

\* the props of the latest render
CurrentScrollProps == scrollProps[Len(scrollProps)]

\* events of date 0 that start at 00:30 or 10:00 and end at 14:00, timed or all-day
ScEventData == [start : {HalfHour, 10 * Hour}, end : {14 * Hour}, allDay : BOOLEAN]

\* scrollOffset, isCurrentDay, scrollToNow, scrollToFirst and initialTime (<<>> when not given)
ScrollPropsSet ==
    [scrollOffset : {Undefined, 0, 250}, isCurrentDay : BOOLEAN,
     scrollToNow : BOOLEAN, scrollToFirst : BOOLEAN,
     initialTime : {<<>>, <<[hour |-> 8, minutes |-> 30]>>}]

ClockSet == {[hour |-> 0, minutes |-> 0], [hour |-> 13, minutes |-> 15]}

InitScroll ==
    /\ props \in [events : {TlWithIds(data) : data \in SeqsUpTo(ScEventData, ScMaxLen)},
                  date : {<<0>>}, eventTapped : {FALSE}, onEventPress : {FALSE}]
    /\ tlPc = "init"
    /\ pageEvents = <<>>
    /\ allDayByDay = <<>>
    /\ timedByDay = <<>>
    /\ packedEvents = <<>>
    /\ lane = <<>>
    /\ pressed = <<>>
    /\ calls = <<>>
    /\ scrollProps \in {<<p>> : p \in ScrollPropsSet}
    /\ now \in ClockSet
    /\ scPc = "mount"
    /\ depOffset = Undefined
    /\ timers = <<>>
    /\ scrollLog = <<>>
    /\ InitPackIdle
    /\ InitSegIdle
    /\ InitUhIdle

\* the effect of useTimelineOffset: the first effect after the first render, the only
\* one after a later render
OffsetEffect ==
    /\ tlPc = "rendered"
    /\ scPc \in {"mount", "rerendered"}
    /\ scrollLog' =
          IF DepsChanged(CurrentScrollProps) /\ ShouldSync(CurrentScrollProps)
          THEN Append(scrollLog, [by |-> "hook",
                                  y |-> RatInt(CurrentScrollProps.scrollOffset),
                                  animated |-> FALSE])
          ELSE scrollLog
    /\ depOffset' = CurrentScrollProps.scrollOffset
    /\ scPc' = IF scPc = "mount" THEN "initial" ELSE "mounted"
    /\ UNCHANGED <<props, tlPc, pageEvents, allDayByDay, timedByDay, packedEvents, lane,
                   pressed, calls, scrollProps, now, timers, packVars, segVars, uhVars>>

\* the effect with no dependencies: it runs once, after the first render
InitialScrollEffect ==
    /\ scPc = "initial"
    /\ LET initialPosition == InitialPosition(scrollProps[1], now, packedEvents)
       IN  timers' = IF ~isNil(scrollProps[1].scrollOffset) /\ Truthy(initialPosition)
                     THEN Append(timers, initialPosition)
                     ELSE timers
    /\ scPc' = "mounted"
    /\ UNCHANGED <<props, tlPc, pageEvents, allDayByDay, timedByDay, packedEvents, lane,
                   pressed, calls, scrollProps, now, depOffset, scrollLog,
                   packVars, segVars, uhVars>>

\* the setTimeout callback
TimerFires ==
    /\ timers # <<>>
    /\ scrollLog' = Append(scrollLog, [by |-> "initial",
                                       y |-> ScrollTarget(Head(timers)),
                                       animated |-> TRUE])
    /\ timers' = Tail(timers)
    /\ UNCHANGED <<props, tlPc, pageEvents, allDayByDay, timedByDay, packedEvents, lane,
                   pressed, calls, scrollProps, now, scPc, depOffset,
                   packVars, segVars, uhVars>>

\* a later render: the parent gives scrollOffset and isCurrentDay again, changed or not;
\* events and date are the same, so the useMemo chain keeps its values
Rerender ==
    /\ scPc = "mounted"
    /\ Len(scrollProps) < MaxRenders
    /\ \E o \in {Undefined, 0, 250}, c \in BOOLEAN :
          scrollProps' = Append(scrollProps,
                                [CurrentScrollProps EXCEPT !.scrollOffset = o,
                                                           !.isCurrentDay = c])
    /\ scPc' = "rerendered"
    /\ UNCHANGED <<props, tlPc, pageEvents, allDayByDay, timedByDay, packedEvents, lane,
                   pressed, calls, now, depOffset, timers, scrollLog,
                   packVars, segVars, uhVars>>

NextScroll == Render \/ OffsetEffect \/ InitialScrollEffect \/ TimerFires \/ Rerender
SpecScroll == InitScroll /\ [][NextScroll]_vars

----------------------------------------------------------------------------
(* Properties of Timeline *)

\* the allDay flag of the contract: on the segment or on its originalEvent
AllDayFlag(seg) ==
    seg.allDay \/ ("originalEvent" \in DOMAIN seg /\ seg.originalEvent.allDay)

InSeq(x, seq) == \E k \in 1..Len(seq) : seq[k] = x

\* a packed event of the list was built from the segment
PackedFrom(seg, packed) ==
    \E k \in 1..Len(packed) :
        /\ packed[k].id = seg.id
        /\ packed[k].segmentDate = seg.segmentDate

Rendered == tlPc \in {"rendered", "pressed"}

\* C9 as stated: an all-day segment is shown in the all-day lane and never
\* packed; any other segment is packed and never shown in the lane.
C9_Original ==
    Rendered =>
        \A d \in 1..Len(pageEvents) : \A k \in 1..Len(pageEvents[d]) :
            LET seg == pageEvents[d][k]
            IN  IF AllDayFlag(seg)
                THEN /\ InSeq(seg, lane[d].visibleEvents)
                     /\ ~InSeq(seg, timedByDay[d])
                     /\ ~PackedFrom(seg, packedEvents[d])
                ELSE /\ InSeq(seg, timedByDay[d])
                     /\ PackedFrom(seg, packedEvents[d])
                     /\ ~InSeq(seg, lane[d].visibleEvents)

\* C9 amended: an all-day segment is given to the all-day lane only, which
\* shows the first rows as chips and counts the rest in its '+N' label, and
\* is never packed; any other segment is packed and never given to the lane.
C9_Routing ==
    Rendered =>
        \A d \in 1..Len(pageEvents) :
            /\ \A k \in 1..Len(pageEvents[d]) :
                  LET seg == pageEvents[d][k]
                  IN  IF AllDayFlag(seg)
                      THEN /\ InSeq(seg, allDayByDay[d])
                           /\ ~InSeq(seg, timedByDay[d])
                           /\ ~PackedFrom(seg, packedEvents[d])
                      ELSE /\ InSeq(seg, timedByDay[d])
                           /\ PackedFrom(seg, packedEvents[d])
                           /\ ~InSeq(seg, allDayByDay[d])
                           /\ ~InSeq(seg, lane[d].visibleEvents)
            /\ Len(allDayByDay[d]) + Len(timedByDay[d]) = Len(pageEvents[d])
            /\ Len(packedEvents[d]) = Len(timedByDay[d])
            /\ Len(lane[d].visibleEvents) + lane[d].hiddenEventsCount = Len(allDayByDay[d])
            /\ \A k \in 1..Len(lane[d].visibleEvents) :
                  lane[d].visibleEvents[k] = allDayByDay[d][k]

\* a page date has a timed segment, a shown and a counted all-day segment,
\* one of the all-day segments being a day of a multi-day event
C9_Witness ==
    /\ Rendered
    /\ \E d \in 1..Len(pageEvents) :
          /\ Len(timedByDay[d]) >= 1
          /\ Len(lane[d].visibleEvents) >= 1
          /\ lane[d].hiddenEventsCount >= 1
          /\ \E k \in 1..Len(allDayByDay[d]) : allDayByDay[d][k].isEventSegment

\* the source event of a block
SourceEvent(block) == props.events[block.id]

\* C10: a press on the block of a day-segment of a multi-day event makes one
\* handler call, to eventTapped when it is given and otherwise to
\* onEventPress when that is given (none can be made when neither prop is
\* given), and the call passes the complete original event.
C10_PressReportsOriginal ==
    (tlPc = "pressed" /\ pressed[1].isEventSegment) =>
        LET original == SourceEvent(pressed[1])
        IN  /\ original.start # pressed[1].start \/ original.end # pressed[1].end
            /\ IF props.eventTapped
               THEN calls = <<[handler |-> "eventTapped", event |-> original]>>
               ELSE IF props.onEventPress
               THEN calls = <<[handler |-> "onEventPress", event |-> original]>>
               ELSE calls = <<>>

\* an all-day chip of the last day of a multi-day event was pressed with both
\* handlers given
C10_Witness ==
    /\ tlPc = "pressed"
    /\ pressed[1].isEventSegment
    /\ pressed[1].allDay
    /\ pressed[1].dayType = "end"
    /\ props.eventTapped
    /\ props.onEventPress
    /\ Len(calls) = 1

\* a timed block of the first day of a multi-day event was pressed with only
\* onEventPress given
C10_WitnessTimed ==
    /\ tlPc = "pressed"
    /\ pressed[1].isEventSegment
    /\ ~pressed[1].allDay
    /\ pressed[1].dayType = "start"
    /\ ~props.eventTapped
    /\ props.onEventPress
    /\ Len(calls) = 1

----------------------------------------------------------------------------
(* Properties of the unavailable-hours builder *)

\* the ranges the contract keeps
IsValidRange(r) ==
    /\ 0 <= r.start /\ r.start < 25
    /\ 0 <= r.end /\ r.end < 25
    /\ r.start < r.end

ValidRanges(ranges) == SelectSeq(ranges, IsValidRange)

\* C7: every range is mapped, a range yields a block exactly when it is
\* valid, whatever the ranges before it were, and the output holds the blocks
\* of the valid ranges in input order.
C7_ValidRangesKept ==
    /\ uhPc \in {"map", "done"} =>
          /\ Len(uhMapped) = uhPos - 1
          /\ \A k \in 1..Len(uhMapped) :
                 Len(uhMapped[k]) = (IF IsValidRange(unavailableHours[k]) THEN 1 ELSE 0)
    /\ uhPc = "done" =>
          LET kept == ValidRanges(unavailableHours)
          IN  /\ Len(uhMapped) = Len(unavailableHours)
              /\ Len(uhBlocks) = Len(kept)
              /\ \A k \in 1..Len(kept) :
                     <<uhBlocks[k]>> = UnavailableBlock(kept[k], uhOptions)

\* {23, 26} was dropped between two different valid ranges that were kept
C7_Witness ==
    /\ uhPc = "done"
    /\ Len(unavailableHours) = 3
    /\ IsValidRange(unavailableHours[1])
    /\ unavailableHours[2] = [start |-> 23, end |-> 26]
    /\ IsValidRange(unavailableHours[3])
    /\ Len(uhBlocks) = 2
    /\ uhBlocks[1] # uhBlocks[2]

----------------------------------------------------------------------------
(* Properties of the packer *)

\* the collision relation of the contract: a.end > b.start && a.start < b.end
Collide(a, b) == a.end > b.start /\ a.start < b.end

ColumnIsFree(col) ==
    \A j, k \in 1..Len(col) : j # k => ~Collide(col[j], col[k])

AllGroups == groups \o (IF pc = "loop" THEN <<columns>> ELSE <<>>)

\* C1: no column of an overlap group, open or flushed, ever holds two
\* colliding events (inputs have start <= end).
C1_NoCollisionInColumn ==
    \A g \in 1..Len(AllGroups) :
        \A c \in 1..Len(AllGroups[g]) : ColumnIsFree(AllGroups[g][c])

\* a column took a third event, tested only against its second, while
\* another column of the group is open
C1_Witness ==
    /\ pc = "loop"
    /\ Len(columns) >= 2
    /\ \E c \in 1..Len(columns) : Len(columns[c]) >= 3

Packed(index) ==
    CHOOSE p \in {calculatedEvents[k] : k \in 1..Len(calculatedEvents)} : p.index = index

IsPacked(index) == \E k \in 1..Len(calculatedEvents) : calculatedEvents[k].index = index

InSameGroup(a, b) ==
    \E g \in 1..Len(groups) :
        /\ \E c \in 1..Len(groups[g]) : \E k \in 1..Len(groups[g][c]) :
              groups[g][c][k].index = a.index
        /\ \E c \in 1..Len(groups[g]) : \E k \in 1..Len(groups[g][c]) :
              groups[g][c][k].index = b.index

ContainedIn(a, b) ==
    /\ a.start >= b.start
    /\ a.end <= b.end
    /\ (a.end - a.start) <= (b.end - b.start)

\* C2 as stated: whenever A is contained in B (and not longer), zIndex(A) > zIndex(B).
C2_Original ==
    pc = "done" =>
        \A i, j \in 1..Len(calculatedEvents) :
            LET a == calculatedEvents[i]
                b == calculatedEvents[j]
            IN  (i # j /\ ContainedIn(a, b)) => a.zIndex > b.zIndex

\* C2 amended: when A is contained in B, both are packed in the same overlap
\* group and their time ranges are not identical, zIndex(A) > zIndex(B).
C2_ContainmentStacking ==
    pc = "done" =>
        \A i, j \in 1..Len(calculatedEvents) :
            LET a == calculatedEvents[i]
                b == calculatedEvents[j]
            IN  (/\ i # j
                 /\ ContainedIn(a, b)
                 /\ InSameGroup(a, b)
                 /\ <<a.start, a.end>> # <<b.start, b.end>>) => a.zIndex > b.zIndex

\* a chain A inside B inside C in one group, all three ranges different
C2_Witness ==
    /\ pc = "done"
    /\ \E i, j, k \in 1..Len(calculatedEvents) :
          LET a == calculatedEvents[i]
              b == calculatedEvents[j]
              c == calculatedEvents[k]
          IN  /\ ContainedIn(a, b) /\ ContainedIn(b, c)
              /\ InSameGroup(a, b) /\ InSameGroup(b, c)
              /\ <<a.start, a.end>> # <<b.start, b.end>>
              /\ <<b.start, b.end>> # <<c.start, c.end>>
              /\ a.zIndex > b.zIndex /\ b.zIndex > c.zIndex

UsableWidth ==
    populateOptions.screenWidth -
    (IF populateOptions.rightEdgeSpacing = Undefined THEN 10
     ELSE populateOptions.rightEdgeSpacing)

\* r = n / d
RatIs(r, n, d) == r.num * d = n * r.den

\* the column span of the contract is 1: last column, or a colliding event
\* in the next column
SpanIsOne(cols, c, event) ==
    \/ c = Len(cols)
    \/ \E k \in 1..Len(cols[c + 1]) : Collide(event, cols[c + 1][k])

\* C3: in a flushed group of N columns with usableWidth > 0, an event of
\* column i has left = i * usableWidth / N, left strictly increases with the
\* column index, and an event of column span 1 has width = usableWidth / N.
C3_ColumnGeometry ==
    UsableWidth > 0 =>
        \A g \in 1..Len(groups) :
            LET cols == groups[g]
                N == Len(cols)
            IN  \A c \in 1..N : \A k \in 1..Len(cols[c]) :
                    LET p == Packed(cols[c][k].index)
                    IN  /\ IsPacked(cols[c][k].index)
                        /\ RatIs(p.left, (c - 1) * UsableWidth, N)
                        /\ SpanIsOne(cols, c, cols[c][k]) => RatIs(p.width, UsableWidth, N)
                        /\ \A c2 \in (c + 1)..N : \A k2 \in 1..Len(cols[c2]) :
                               RatLess(p.left, Packed(cols[c2][k2].index).left)

\* a flushed group of three or more columns holds an event of span 1 that is
\* not in the last column and an event that is widened over a free column
C3_Witness ==
    /\ UsableWidth > 0
    /\ \E g \in 1..Len(groups) :
          LET cols == groups[g]
              N == Len(cols)
          IN  /\ N >= 3
              /\ \E c \in 1..(N - 1) : \E k \in 1..Len(cols[c]) :
                     /\ SpanIsOne(cols, c, cols[c][k])
                     /\ RatIs(Packed(cols[c][k].index).width, UsableWidth, N)
              /\ \E c \in 1..(N - 1) : \E k \in 1..Len(cols[c]) :
                     /\ ~SpanIsOne(cols, c, cols[c][k])
                     /\ ~RatIs(Packed(cols[c][k].index).width, UsableWidth, N)

\* C8: X, then Y, then X again: the third call returns what the first
\* returned, and no call changes the caller's lists.
C8_Idempotent ==
    /\ [](pc = "done" /\ callNo = 3 => results[3] = results[1])
    /\ [][lists' = lists]_vars

\* the third call has returned; X and Y differ, X was packed into a group of
\* two columns and Y into two groups
C8_Witness ==
    /\ pc = "done"
    /\ callNo = 3
    /\ lists.X # lists.Y
    /\ Len(results[1]) >= 2
    /\ Len(results[2]) >= 2
    /\ results[2] # results[1]
    /\ \E k \in 1..Len(results[1]) : results[1][k].left.num > 0
    /\ \A k \in 1..Len(results[2]) : results[2][k].left.num = 0

MembersOf(cols) ==
    UNION {{cols[c][k] : k \in 1..Len(cols[c])} : c \in 1..Len(cols)}

RECURSIVE CollisionClosure(_, _)
CollisionClosure(S, M) ==
    LET next == S \cup {m \in M : \E x \in S : Collide(x, m)}
    IN  IF next = S THEN S ELSE CollisionClosure(next, M)

\* the collision graph on M is connected
IsConnected(M) ==
    M = {} \/ CollisionClosure({CHOOSE m \in M : TRUE}, M) = M

\* C12: the flushed groups are the connected components of the collision
\* relation: a group is connected, an event of a group of two or more
\* collides with another event of it, events of different groups never
\* collide (colliding events share a group), and an event that starts at or
\* after every end of the group before it is in a later group.
C12_GroupsAreComponents ==
    /\ \A g \in 1..Len(groups) :
          LET M == MembersOf(groups[g])
          IN  /\ IsConnected(M)
              /\ Cardinality(M) >= 2 =>
                     \A a \in M : \E b \in M : a.index # b.index /\ Collide(a, b)
              /\ \A h \in (g + 1)..Len(groups) :
                     \A a \in M : \A b \in MembersOf(groups[h]) :
                         ~Collide(a, b) /\ b.start >= a.end
    /\ pc = "done" =>
          /\ \A i, j \in 1..Len(events) :
                 (i # j /\ Collide(events[i], events[j])) =>
                     InSameGroup(events[i], events[j])
          /\ \A i \in 1..Len(events) : InSameGroup(events[i], events[i])

\* a group of three holds two events that are connected only through the
\* third, and the next group starts exactly at the end of that group
C12_Witness ==
    /\ pc = "done"
    /\ Len(groups) >= 2
    /\ LET M == MembersOf(groups[1])
       IN  /\ Cardinality(M) >= 3
           /\ \E a, b \in M : a.index # b.index /\ ~Collide(a, b)
           /\ \E a \in M : \E b \in MembersOf(groups[2]) :
                  /\ b.start = a.end
                  /\ \A x \in M : x.end <= a.end

RatSum(a, b) == Rat(a.num * b.den + b.num * a.den, a.den * b.den)

RatLeq(a, b) == a.num * b.den <= b.num * a.den

\* [a.left, a.left + a.width) lies left of [b.left, ...)
LeftOf(a, b) == RatLeq(RatSum(a.left, a.width), b.left)

\* C15: with usableWidth > 0, two packed events that collide in time have
\* disjoint horizontal extents [left, left + width).
C15_CollidingExtentsDisjoint ==
    UsableWidth > 0 =>
        \A i, j \in 1..Len(calculatedEvents) :
            LET a == calculatedEvents[i]
                b == calculatedEvents[j]
            IN  (i # j /\ Collide(a, b)) => (LeftOf(a, b) \/ LeftOf(b, a))

\* an event widened over a free column ends where the column of an event it
\* collides with begins; a narrower event in the covered column collides
\* with that event too
C15_Witness ==
    /\ UsableWidth > 0
    /\ \E i, j, k \in 1..Len(calculatedEvents) :
          LET a == calculatedEvents[i]
              b == calculatedEvents[j]
              c == calculatedEvents[k]
          IN  /\ Collide(a, b)
              /\ Collide(c, b)
              /\ RatLess(c.width, a.width)
              /\ RatSum(a.left, a.width) = b.left
              /\ RatLess(a.left, c.left)

\* C16: the output has one packed event per input event, its index fields are
\* the input positions 0..n-1, each once; while the loop runs every event
\* taken so far is in exactly one column of one group.
C16_NoLossNoDuplicate ==
    /\ pc = "done" =>
          LET n == Len(lists[arg])
          IN  /\ Len(calculatedEvents) = n
              /\ results[callNo] = calculatedEvents
              /\ {calculatedEvents[k].index : k \in 1..Len(calculatedEvents)} = 0..(n - 1)
              /\ \A k \in 1..n :
                     /\ Packed(k - 1).start = lists[arg][k].start
                     /\ Packed(k - 1).end = lists[arg][k].end
              /\ Len(Flatten(Flatten(groups))) = n
    /\ pc = "loop" =>
          LET placed == Flatten(Flatten(AllGroups))
          IN  /\ Len(placed) = pos - 1
              /\ {placed[k].index : k \in 1..Len(placed)} =
                     {events[k].index : k \in 1..(pos - 1)}
              /\ Len(calculatedEvents) = Len(Flatten(Flatten(groups)))

\* a list of at least three events was packed in two or more groups, the last
\* one flushed after the loop
C16_Witness ==
    /\ pc = "done"
    /\ Len(lists[arg]) >= 3
    /\ Len(groups) >= 2
    /\ Len(groups[Len(groups)]) >= 2
    /\ Len(calculatedEvents) = Len(lists[arg])

\* an empty list was packed
C16_WitnessEmpty ==
    /\ pc = "done"
    /\ lists[arg] = <<>>
    /\ calculatedEvents = <<>>

\* the claimed block of a range: the range clamped to the visible day
ClampedTop(r, options) ==
    (Max(r.start, UhDayStart(options)) - UhDayStart(options)) * UhHourBlockHeight(options)

ClampedHeight(r, options) ==
    (Min(r.end, UhDayEnd(options)) - Max(r.start, UhDayStart(options)))
        * UhHourBlockHeight(options)

\* C13: with dayStart < dayEnd the block of every valid range has top >= 0,
\* height >= 0 and top + height <= (dayEnd - dayStart) * hourBlockHeight, with
\* top and height those of the clamped range.
C13_BlocksInsideDay ==
    (uhPc = "done" /\ UhDayStart(uhOptions) < UhDayEnd(uhOptions)) =>
        LET kept == ValidRanges(unavailableHours)
            dayHeight == (UhDayEnd(uhOptions) - UhDayStart(uhOptions))
                             * UhHourBlockHeight(uhOptions)
        IN  \A k \in 1..Len(uhBlocks) :
                /\ uhBlocks[k].top = RatInt(ClampedTop(kept[k], uhOptions))
                /\ uhBlocks[k].height = RatInt(ClampedHeight(kept[k], uhOptions))
                /\ RatLeq(RatInt(0), uhBlocks[k].top)
                /\ RatLeq(RatInt(0), uhBlocks[k].height)
                /\ RatLeq(RatSum(uhBlocks[k].top, uhBlocks[k].height), RatInt(dayHeight))

----------------------------------------------------------------------------
(* Properties of the scroll effects *)

ByHook(s) == s.by = "hook"

\* the scrolls the hook owes for renders 1..n: one for each render whose scrollOffset
\* is defined and differs from that of the render before it (the first render has none
\* before it) while isCurrentDay is false
RECURSIVE HookScrollsOwed(_, _)
HookScrollsOwed(renders, n) ==
    IF n = 0 THEN <<>>
    ELSE LET p == renders[n]
             changed == n = 1 \/ renders[n - 1].scrollOffset # p.scrollOffset
         IN  HookScrollsOwed(renders, n - 1) \o
                 (IF changed /\ p.scrollOffset # Undefined /\ ~p.isCurrentDay
                  THEN <<[by |-> "hook", y |-> RatInt(p.scrollOffset), animated |-> FALSE]>>
                  ELSE <<>>)

\* the renders whose hook effect has run
HookEffectsRun ==
    IF scPc \in {"mount", "rerendered"} THEN Len(scrollProps) - 1 ELSE Len(scrollProps)

\* C14: over any sequence of renders the hook scrolls, without animation and to
\* y = scrollOffset, once for each render on which scrollOffset changed to a defined
\* value while isCurrentDay was false, and it makes no other scroll: none while
\* isCurrentDay is true, none for an undefined scrollOffset, none on a render where
\* scrollOffset did not change.
C14_HookScrolls ==
    scPc # "idle" =>
        SelectSeq(scrollLog, ByHook) = HookScrollsOwed(scrollProps, HookEffectsRun)

\* three renders: scrollOffset 250 off the current day (a scroll), then isCurrentDay
\* alone changes (no scroll), then scrollOffset changes to 0 off the current day
C14_Witness ==
    /\ scPc = "mounted"
    /\ Len(scrollProps) = 3
    /\ scrollProps[1].scrollOffset = 250 /\ ~scrollProps[1].isCurrentDay
    /\ scrollProps[2].scrollOffset = 250 /\ scrollProps[2].isCurrentDay
    /\ scrollProps[3].scrollOffset = 0 /\ ~scrollProps[3].isCurrentDay
    /\ SelectSeq(scrollLog, ByHook) =
           <<[by |-> "hook", y |-> RatInt(250), animated |-> FALSE],
             [by |-> "hook", y |-> RatInt(0), animated |-> FALSE]>>

\* the props of the first render ask for an initial position
InitialScrollAsked(p) ==
    \/ p.scrollToNow
    \/ p.scrollToFirst /\ Len(timedByDay[1]) > 0
    \/ p.initialTime # <<>>

\* the position they ask for: the current time, else the topmost timed event of the
\* first day, else initialTime
AskedPosition(p) ==
    IF p.scrollToNow THEN Rat((now.hour * 60 + now.minutes) * HOUR_BLOCK_HEIGHT, 60)
    ELSE IF p.scrollToFirst /\ Len(timedByDay[1]) > 0
    THEN LET tops == {packedEvents[1][k].top : k \in 1..Len(packedEvents[1])}
         IN  CHOOSE t \in tops : \A u \in tops : RatLeq(t, u)
    ELSE Rat((p.initialTime[1].hour * 60 + p.initialTime[1].minutes) * HOUR_BLOCK_HEIGHT, 60)

\* a scroll that shows the position: it ends at most one hour block above it
ShowsPosition(s, position) ==
    /\ s.by = "initial"
    /\ RatLeq(s.y, position)
    /\ RatLeq(RatSub(position, s.y), RatInt(HOUR_BLOCK_HEIGHT))

\* C11: a Timeline loaded with scrollToNow scrolls to the current time; loaded with
\* scrollToFirst (and not scrollToNow) and a timed event on the first day it scrolls to
\* the topmost event; otherwise, with initialTime, it scrolls to that time; whether or
\* not a scrollOffset prop is passed.  Stated for a position below the top of the day,
\* once the effects have run and no timer is pending.
C11_InitialScroll ==
    (scPc \in {"mounted", "rerendered"} /\ timers = <<>>) =>
        LET p == scrollProps[1]
        IN  (InitialScrollAsked(p) /\ RatLess(RatInt(0), AskedPosition(p))) =>
                \E k \in 1..Len(scrollLog) : ShowsPosition(scrollLog[k], AskedPosition(p))

====
